---- MODULE Spec2Model ----
(***************************************************************************)
(* The OAuth callback flow of api/controllers/console/auth/oauth.py and    *)
(* the organization-to-tenant synchronisation embedded in it.              *)
(*                                                                         *)
(* Strings are sequences of one-character strings, so that str.split and   *)
(* str.join are computed, not assumed.  The database is modelled by its    *)
(* committed rows (tenants, mappings, joins, accounts); every request has  *)
(* its own session whose flushed but uncommitted rows (pt, pm) are seen    *)
(* by that request only and are published by a commit.                     *)
(***************************************************************************)
EXTENDS Integers, Sequences, FiniteSets, TLC

VARIABLES accounts, tenants, mappings, joins, sessions, nextId, clock, req,
          api_tokens, next_key_id, api_response

\* the ApiToken rows, the id of the next ApiToken and the last response of the
\* API-key endpoints of controllers/service_api/app/app.py
apiVars == <<api_tokens, next_key_id, api_response>>

vars == <<accounts, tenants, mappings, joins, sessions, nextId, clock, req,
          api_tokens, next_key_id, api_response>>

(***************************************************************************)
(* Bounds of the model.                                                    *)
(***************************************************************************)
MaxOrgs == 1
MaxLogins == 2
MaxCalls == 2
MaxProviderOrgs == 1
MaxKeyIds == 12

Req == {1, 2}
AccountIds == {1, 2, 3}
NoAccount == 0
NoTenant == 0

(***************************************************************************)
(* Strings.                                                                *)
(***************************************************************************)
Slash == "/"
Hyphen == "-"
EmptyStr == << >>
NoKey == <<"None">>

Acme == <<"A", "c", "m", "e">>
Beta == <<"B">>
Dept == <<"d", "e", "p", "t">>
Team == <<"t", "e", "a", "m">>
AcmeSlash == Acme \o <<Slash>>
AcmeDept == Acme \o <<Slash>> \o Dept
AcmeDeptTeam == Acme \o <<Slash>> \o Dept \o <<Hyphen>> \o Team

OrgPool == {EmptyStr, Acme, AcmeSlash, AcmeDeptTeam, Beta}

RECURSIVE SeqsUpTo(_, _)
SeqsUpTo(S, n) ==
    IF n = 0 THEN {<< >>}
    ELSE LET shorter == SeqsUpTo(S, n - 1)
         IN  shorter \cup {Append(q, x) : q \in shorter, x \in S}

OrgLists == SeqsUpTo(OrgPool, MaxOrgs)

\* position of the first c in s, 0 when s holds no c  ('/' in org, str.split)
IndexOf(s, c) ==
    IF \E i \in 1..Len(s) : s[i] = c
    THEN CHOOSE i \in 1..Len(s) : s[i] = c /\ \A j \in 1..(i - 1) : s[j] # c
    ELSE 0

\* org.split('/', 1) for an org that holds the separator
SplitOnce(s, c) ==
    LET i == IndexOf(s, c)
    IN  <<SubSeq(s, 1, i - 1), SubSeq(s, i + 1, Len(s))>>

\* child_org_part.split('-')
RECURSIVE Split(_, _)
Split(s, c) ==
    LET i == IndexOf(s, c)
    IN  IF i = 0 THEN <<s>>
        ELSE <<SubSeq(s, 1, i - 1)>> \o Split(SubSeq(s, i + 1, Len(s)), c)

\* '-'.join(parts)
RECURSIVE Join(_, _)
Join(parts, c) ==
    IF Len(parts) = 0 THEN << >>
    ELSE IF Len(parts) = 1 THEN parts[1]
    ELSE parts[1] \o <<c>> \o Join(Tail(parts), c)

\* faulty variant: the path of a level is built from its own part only
FullOrgPathOwnPart(root_org, org_path_parts, i) ==
    root_org \o <<Slash>> \o org_path_parts[i]

\* f"{root_org}/{'-'.join(org_path_parts[:i+1])}" for the i-th part (1-based)
FullOrgPath(root_org, org_path_parts, i) ==
    root_org \o <<Slash>> \o Join(SubSeq(org_path_parts, 1, i), Hyphen)

(***************************************************************************)
(* Rows.                                                                   *)
(***************************************************************************)
TenantRow(id, key, name, parent) ==
    [id |-> id, key |-> key, name |-> name, parent |-> parent]

MappingRow(key, tid) == [key |-> key, tenant |-> tid]

JoinRow(tid, a, role) == [tenant |-> tid, account |-> a, role |-> role]

NoSnapshot == [tenants |-> {}, mappings |-> {}, joins |-> << >>, current |-> NoTenant]

NoResult == [reason |-> "none", kind |-> "none"]

\* what _generate_account finds in FeatureService, dify_config and
\* BillingService (lines 338, 347, 348); the request record keeps what the
\* call found
Env ==
    [is_allow_create_workspace : BOOLEAN, is_allow_register : BOOLEAN,
     BILLING_ENABLED : BOOLEAN, is_email_in_freeze : BOOLEAN]

NoEnv ==
    [is_allow_create_workspace |-> FALSE, is_allow_register |-> FALSE,
     BILLING_ENABLED |-> FALSE, is_email_in_freeze |-> FALSE]

Idle ==
    [pc |-> "idle", ident |-> NoAccount, orgs |-> << >>, invite |-> "none",
     res |-> NoResult, org_to_tenant |-> {}, user_tenant_ids |-> << >>, idx |-> 0,
     all_level_tenant_ids |-> << >>, li |-> 0, pt |-> {}, pm |-> {},
     pre |-> NoSnapshot, rep |-> FALSE, env |-> NoEnv]

Range(s) == {s[i] : i \in 1..Len(s)}

(***************************************************************************)
(* Collaborators of the services layer.                                    *)
(***************************************************************************)
\* TenantService.get_join_tenants(account): ids of the tenants joined, in row order
RECURSIVE JoinTenantIds(_, _)
JoinTenantIds(js, a) ==
    IF Len(js) = 0 THEN << >>
    ELSE IF js[1].account = a
         THEN <<js[1].tenant>> \o JoinTenantIds(Tail(js), a)
         ELSE JoinTenantIds(Tail(js), a)

\* TenantService.create_tenant_member(tenant, account, role): the row is added,
\* or its role updated when the pair is already joined
CreateTenantMember(js, tid, a, role) ==
    IF \E i \in 1..Len(js) : js[i].tenant = tid /\ js[i].account = a
    THEN [i \in 1..Len(js) |->
            IF js[i].tenant = tid /\ js[i].account = a
            THEN [js[i] EXCEPT !.role = role] ELSE js[i]]
    ELSE Append(js, JoinRow(tid, a, role))

\* TenantService.create_tenant_member ends with a commit of the session it is
\* called in: the flushed rows of request record q that it publishes
CommittedByCreateTenantMember(q) == [tenants |-> q.pt, mappings |-> q.pm]

(***************************************************************************)
(* _sync_user_organizations: the work on one organization string.          *)
(* st = [org_to_tenant, pt, pm, nid, parent, all_level_tenant_ids] is the  *)
(* local state of the loop.                                                *)
(***************************************************************************)
\* faulty variant: no key is ever found in the dict
HasKeyNever(org_to_tenant, key) == FALSE

\* lines 215, 250, 291: key in org_to_tenant
HasKey(org_to_tenant, key) == \E m \in org_to_tenant : m.key = key

TenantOf(org_to_tenant, key) == (CHOOSE m \in org_to_tenant : m.key = key).tenant

\* faulty variant: every tenant is created without a parent
EnsureTenantParentless(st, key, name, parent) ==
    IF HasKey(st.org_to_tenant, key) THEN st
    ELSE [st EXCEPT !.pt = @ \cup {TenantRow(st.nid, key, name, NoTenant)},
                    !.pm = @ \cup {MappingRow(key, st.nid)},
                    !.org_to_tenant = @ \cup {MappingRow(key, st.nid)},
                    !.nid = @ + 1]

\* lines 215-236, 250-270, 291-312: create the Tenant and its mapping when the
\* key is not in org_to_tenant
EnsureTenant(st, key, name, parent) ==
    IF HasKey(st.org_to_tenant, key) THEN st
    ELSE [st EXCEPT !.pt = @ \cup {TenantRow(st.nid, key, name, parent)},
                    !.pm = @ \cup {MappingRow(key, st.nid)},
                    !.org_to_tenant = @ \cup {MappingRow(key, st.nid)},
                    !.nid = @ + 1]

\* lines 244-277: the loop over org_path_parts
RECURSIVE WalkLevels(_, _, _, _)
WalkLevels(st, root_org, org_path_parts, i) ==
    IF i > Len(org_path_parts) THEN st
    ELSE LET full_org_path == FullOrgPath(root_org, org_path_parts, i)
             s1 == EnsureTenant(st, full_org_path, org_path_parts[i], st.parent)
             current_tenant_id == TenantOf(s1.org_to_tenant, full_org_path)
         IN  WalkLevels([s1 EXCEPT !.all_level_tenant_ids = Append(@, current_tenant_id),
                                   !.parent = current_tenant_id],
                        root_org, org_path_parts, i + 1)

\* lines 206-277: an organization string holding '/'
MaterializePath(st, org) ==
    LET root_org == SplitOnce(org, Slash)[1]
        child_org_part == SplitOnce(org, Slash)[2]
        org_path_parts == Split(child_org_part, Hyphen)
        s1 == EnsureTenant(st, root_org, root_org, NoTenant)
        root_id == TenantOf(s1.org_to_tenant, root_org)
    IN  WalkLevels([s1 EXCEPT !.parent = root_id, !.all_level_tenant_ids = <<root_id>>],
                   root_org, org_path_parts, 1)

\* faulty variant: the flat tenant is created without a name
MaterializeFlatUnnamed(st, org) ==
    LET s1 == EnsureTenant(st, org, EmptyStr, NoTenant)
    IN  [s1 EXCEPT !.all_level_tenant_ids = <<TenantOf(s1.org_to_tenant, org)>>]

\* lines 286-315: an organization string without '/'
MaterializeFlat(st, org) ==
    LET s1 == EnsureTenant(st, org, org, NoTenant)
    IN  [s1 EXCEPT !.all_level_tenant_ids = <<TenantOf(s1.org_to_tenant, org)>>]

Materialize(st, org) ==
    IF IndexOf(org, Slash) # 0 THEN MaterializePath(st, org)
    ELSE MaterializeFlat(st, org)

\* where the loop of line 199 goes after the organization at idx is finished
NextOrg(q) ==
    [q EXCEPT !.idx = @ + 1, !.all_level_tenant_ids = << >>, !.li = 0,
              !.pc = IF q.idx + 1 > Len(q.orgs) THEN "sync_end" ELSE "sync_org"]

(***************************************************************************)
(* The session of request r.                                               *)
(***************************************************************************)
\* what a query of request r sees: the committed rows and its own flushed rows
VisibleTenants(r) == tenants \cup req[r].pt

\* faulty variant: the existing mappings are not read
MappingDictsUnread == {{}}

\* the dict comprehension of line 191: one tenant id per key (with two
\* mappings of one key, the one iterated last wins, and the order of an
\* unordered query is not fixed)
MappingDicts ==
    {S \in SUBSET mappings :
        \A m \in mappings : Cardinality({n \in S : n.key = m.key}) = 1}

Snapshot(a) ==
    [tenants |-> tenants, mappings |-> mappings, joins |-> joins,
     current |-> accounts[a].current]

(***************************************************************************)
(* _sync_user_organizations(account, user_info), one action per            *)
(* transaction-visible step.                                               *)
(***************************************************************************)
\* lines 185-196: the early return, else the two reads
SyncBegin(r) ==
    /\ req[r].pc = "sync_begin"
    /\ IF req[r].orgs = << >>
       THEN req' = [req EXCEPT ![r].pc = "sync_ret"]
       ELSE \E d \in MappingDicts :
              req' = [req EXCEPT ![r].org_to_tenant = d,
                                 ![r].user_tenant_ids = JoinTenantIds(joins, req[r].ident),
                                 ![r].idx = 1,
                                 ![r].pc = "sync_org"]
    /\ UNCHANGED <<accounts, tenants, mappings, joins, sessions, nextId, clock>>
    /\ UNCHANGED apiVars

\* lines 199-277 and 286-315: skip an empty entry, else ensure the tenants of
\* the organization at idx (added and flushed in the session, not committed)
SyncOrg(r) ==
    /\ req[r].pc = "sync_org"
    /\ LET q == req[r]
           org == q.orgs[q.idx]
           st == Materialize([org_to_tenant |-> q.org_to_tenant, pt |-> q.pt, pm |-> q.pm,
                              nid |-> nextId, parent |-> NoTenant,
                              all_level_tenant_ids |-> << >>], org)
       IN  IF org = EmptyStr
           THEN /\ req' = [req EXCEPT ![r] = NextOrg(q)]
                /\ UNCHANGED nextId
           ELSE /\ req' = [req EXCEPT ![r].org_to_tenant = st.org_to_tenant, ![r].pt = st.pt,
                                      ![r].pm = st.pm, ![r].all_level_tenant_ids = st.all_level_tenant_ids,
                                      ![r].li = 1, ![r].pc = "sync_attach"]
                /\ nextId' = st.nid
    /\ UNCHANGED <<accounts, tenants, mappings, joins, sessions, clock>>
    /\ UNCHANGED apiVars

\* faulty variant: the memberships of the account are replaced by the level
\* attached
AttachAsOwnerOnly(js, tid, a) ==
    Append(SelectSeq(js, LAMBDA j : j.account # a), JoinRow(tid, a, "owner"))

\* lines 284, 319: TenantService.create_tenant_member(tenant, account, role="owner")
AttachAsOwner(js, tid, a) == CreateTenantMember(js, tid, a, "owner")

\* faulty variant: every visited level is attached again
NotInUserTenantIdsAlways(user_tenant_ids, tenant_id) == TRUE

\* lines 281, 316: tenant_id not in user_tenant_ids
NotInUserTenantIds(user_tenant_ids, tenant_id) == tenant_id \notin Range(user_tenant_ids)

\* lines 280-285 and 315-320, one tenant_id per step: create_tenant_member
\* commits the session, which publishes the rows flushed so far
SyncAttach(r) ==
    /\ req[r].pc = "sync_attach"
    /\ LET q == req[r]
           tenant_id == q.all_level_tenant_ids[q.li]
           attach == /\ NotInUserTenantIds(q.user_tenant_ids, tenant_id)
                     /\ \E t \in VisibleTenants(r) : t.id = tenant_id
           q1 == IF attach
                 THEN [q EXCEPT !.user_tenant_ids = Append(@, tenant_id),
                                !.pt = {}, !.pm = {}]
                 ELSE q
       IN  /\ req' = [req EXCEPT ![r] =
                        IF q.li = Len(q.all_level_tenant_ids) THEN NextOrg(q1)
                        ELSE [q1 EXCEPT !.li = @ + 1]]
           /\ IF attach
              THEN /\ joins' = AttachAsOwner(joins, tenant_id, q.ident)
                   /\ tenants' = tenants \cup CommittedByCreateTenantMember(q).tenants
                   /\ mappings' = mappings \cup CommittedByCreateTenantMember(q).mappings
              ELSE UNCHANGED <<joins, tenants, mappings>>
    /\ UNCHANGED <<accounts, sessions, nextId, clock>>
    /\ UNCHANGED apiVars

\* lines 322-328: the current tenant, then the commit
SyncEnd(r) ==
    /\ req[r].pc = "sync_end"
    /\ LET q == req[r]
           a == q.ident
           pick == /\ accounts[a].current = NoTenant
                   /\ q.user_tenant_ids # << >>
                   /\ \E t \in VisibleTenants(r) : t.id = q.user_tenant_ids[1]
       IN  /\ accounts' = IF pick
                          THEN [accounts EXCEPT ![a].current = q.user_tenant_ids[1]]
                          ELSE accounts
           /\ tenants' = tenants \cup q.pt
           /\ mappings' = mappings \cup q.pm
           /\ req' = [req EXCEPT ![r].pc = "sync_ret", ![r].pt = {}, ![r].pm = {},
                                 ![r].org_to_tenant = {}, ![r].user_tenant_ids = << >>, ![r].idx = 0]
    /\ UNCHANGED <<joins, sessions, nextId, clock>>
    /\ UNCHANGED apiVars

\* a database call of lines 190-328 raises: the exception leaves the function
\* and the session's uncommitted rows are rolled back with the request
SyncFail(r) ==
    /\ req[r].pc \in {"sync_begin", "sync_org", "sync_attach", "sync_end"}
    /\ req[r].orgs # << >>
    /\ req' = [req EXCEPT ![r].pc = "sync_exc", ![r].pt = {}, ![r].pm = {},
                          ![r].org_to_tenant = {}, ![r].user_tenant_ids = << >>, ![r].idx = 0,
                          ![r].all_level_tenant_ids = << >>, ![r].li = 0]
    /\ UNCHANGED <<accounts, tenants, mappings, joins, sessions, nextId, clock>>
    /\ UNCHANGED apiVars

(***************************************************************************)
(* OAuthCallback.get, one action per step between commits.                 *)
(***************************************************************************)
InviteKinds == {"none", "invalid", "valid_no_invitation", "valid_match", "valid_mismatch"}

ProviderOrgPool == {Acme, AcmeDept}
ProviderOrgLists == SeqsUpTo(ProviderOrgPool, MaxProviderOrgs)

\* the request is answered
Reply(q, reason, kind) ==
    [Idle EXCEPT !.pc = "done", !.invite = q.invite,
                 !.res = [reason |-> reason, kind |-> kind]]

\* RegisterService.is_valid_invite_token(invite_token)
IsValidInviteToken(invite) ==
    invite \in {"valid_no_invitation", "valid_match", "valid_mismatch"}

\* faulty variant: the short-circuit is taken only when the invitation is found
InviteTokenValidAndFound(invite) == invite \in {"valid_match", "valid_mismatch"}

\* line 117: invite_token and RegisterService.is_valid_invite_token(invite_token)
InviteTokenValid(invite) == invite # "none" /\ IsValidInviteToken(invite)

\* lines 118-124: the answer to a callback that carries a valid invite token
InviteReply(q) ==
    IF q.invite = "valid_mismatch"
    THEN Reply(q, "invite_mismatch", "redirect_signin")
    ELSE Reply(q, "invite_settings", "redirect_invite")

\* lines 110-115: the answer when the token or user-info exchange raises
ExchangeFailedReply(q) == Reply(q, "oauth_failed", "json_400")

\* lines 92-124.  The record keeps the invite token only when it is a valid
\* one; the identity and the organizations are known once the exchange is done.
Receive(r) ==
    /\ clock < MaxLogins
    /\ req[r].pc \in {"idle", "done"}
    /\ \/ \E reason \in {"invalid_provider", "code_required"} :
            req' = [req EXCEPT ![r] = Reply(Idle, reason, "json_400")]
       \/ req' = [req EXCEPT ![r] = ExchangeFailedReply(Idle)]
       \/ \E invite \in InviteKinds, ident \in AccountIds, orgs \in ProviderOrgLists :
            LET q == [Idle EXCEPT !.ident = ident, !.orgs = orgs,
                                  !.invite = IF IsValidInviteToken(invite)
                                             THEN invite ELSE "none"]
            IN  req' = [req EXCEPT ![r] =
                          IF InviteTokenValid(invite) THEN InviteReply(q)
                          ELSE [q EXCEPT !.pc = "generate", !.pre = Snapshot(ident)]]
    /\ clock' = clock + 1
    /\ UNCHANGED <<accounts, tenants, mappings, joins, sessions, nextId>>
    /\ UNCHANGED apiVars

\* TenantService.create_tenant(name) for a personal workspace
PersonalTenant(id) == TenantRow(id, NoKey, <<"W">>, NoTenant)

\* RegisterService.register(...): the new account, then its link (line 372)
RegisteredAccount(now) ==
    [exists |-> TRUE, status |-> "ACTIVE", initialized_at |-> now,
     current |-> NoTenant, linked |-> TRUE]

\* faulty variant: an account is never found without tenants
NoJoinedTenantsNever(tenant_ids) == FALSE

\* line 337: if not tenants
NoJoinedTenants(tenant_ids) == tenant_ids = << >>

\* faulty variant: the freeze list is consulted whether or not billing is enabled
RegisterErrorDescriptionUnbilled(env) ==
    IF env.is_email_in_freeze THEN "register_frozen" ELSE "register_disabled"

\* lines 348-356: the description of the AccountRegisterError
RegisterErrorDescription(env) ==
    IF env.BILLING_ENABLED /\ env.is_email_in_freeze THEN "register_frozen"
    ELSE "register_disabled"

\* the settings that decide a call: is_allow_create_workspace is read for an
\* account without tenants (line 338), is_allow_register when there is no
\* account (line 347), billing and the freeze list when registration is off
\* (line 348); a setting that is not read is left FALSE
GenerateEnvs(account_exists, no_tenants) ==
    {e \in Env :
        /\ e.is_allow_create_workspace => (account_exists /\ no_tenants)
        /\ e.is_allow_register => ~account_exists
        /\ (e.BILLING_ENABLED \/ e.is_email_in_freeze)
             => (~account_exists /\ ~e.is_allow_register)}

\* lines 333-372 of _generate_account, up to the call of the sync
GenerateAccount(r) ==
    /\ req[r].pc = "generate"
    /\ LET q == req[r]
           a == q.ident
       IN  \E env \in GenerateEnvs(accounts[a].exists,
                                   NoJoinedTenants(JoinTenantIds(joins, a))) :
           LET synced == [q EXCEPT !.pc = "sync_begin", !.env = env]
           IN
           IF accounts[a].exists
           THEN IF ~NoJoinedTenants(JoinTenantIds(joins, a))
                THEN /\ req' = [req EXCEPT ![r] = synced]
                     /\ accounts' = [accounts EXCEPT ![a].linked = TRUE]
                     /\ UNCHANGED <<tenants, joins, nextId>>
                ELSE IF ~env.is_allow_create_workspace
                THEN /\ req' = [req EXCEPT ![r] =
                                  Reply(q, "workspace_not_allowed", "redirect_signin")]
                     /\ UNCHANGED <<accounts, tenants, joins, nextId>>
                ELSE /\ tenants' = tenants \cup {PersonalTenant(nextId)}
                     /\ joins' = CreateTenantMember(joins, nextId, a, "owner")
                     /\ accounts' = [accounts EXCEPT ![a].current = nextId,
                                                     ![a].linked = TRUE]
                     /\ nextId' = nextId + 1
                     /\ req' = [req EXCEPT ![r] = synced]
           ELSE IF ~env.is_allow_register
                THEN /\ req' = [req EXCEPT ![r] =
                                  [Reply(q, RegisterErrorDescription(env), "redirect_signin")
                                     EXCEPT !.env = env]]
                     /\ UNCHANGED <<accounts, tenants, joins, nextId>>
                ELSE /\ accounts' = [accounts EXCEPT ![a] = RegisteredAccount(clock)]
                     /\ req' = [req EXCEPT ![r] = synced]
                     /\ UNCHANGED <<tenants, joins, nextId>>
    /\ UNCHANGED <<mappings, sessions, clock>>
    /\ UNCHANGED apiVars

\* lines 126-136: no except clause matches what the sync raised
Unhandled(r) ==
    /\ req[r].pc = "sync_exc"
    /\ req' = [req EXCEPT ![r] = Reply(req[r], "sync_failed", "unhandled")]
    /\ UNCHANGED <<accounts, tenants, mappings, joins, sessions, nextId, clock>>
    /\ UNCHANGED apiVars

\* faulty variant: the status gate lets every status pass
GateRejectsNothing(status) == FALSE

\* line 139
GateRejects(status) == status = "BANNED"

\* faulty variant: the activation runs for every status that passes the gate
GateActivatesAlways(status) == status # "BANNED"

\* line 142
GateActivates(status) == status = "PENDING"

\* faulty variant: the banned account is answered like the exchange failure
BannedReplyJson(q) == Reply(q, "banned", "json_400")

\* line 140
BannedReply(q) == Reply(q, "banned", "redirect_signin")

\* lines 138-145: the status gate
Gate(r) ==
    /\ req[r].pc = "sync_ret"
    /\ LET q == req[r]
           a == q.ident
       IN  IF GateRejects(accounts[a].status)
           THEN /\ req' = [req EXCEPT ![r] = BannedReply(q)]
                /\ UNCHANGED accounts
           ELSE /\ req' = [req EXCEPT ![r].pc = "ensure"]
                /\ accounts' =
                     IF GateActivates(accounts[a].status)
                     THEN [accounts EXCEPT ![a].status = "ACTIVE",
                                           ![a].initialized_at = clock]
                     ELSE accounts
    /\ UNCHANGED <<tenants, mappings, joins, sessions, nextId, clock>>
    /\ UNCHANGED apiVars

\* TenantService.create_owner_tenant_if_not_exist(account): a tenant is due
\* when the account has joined none
OwnerTenantMissing(js, a) == JoinTenantIds(js, a) = << >>

\* AccountService.login(account, ip_address): a new token set for the account
LoggedIn(ss, a) == ss \cup {<<a, Cardinality(ss) + 1>>}

\* lines 147-167: create_owner_tenant_if_not_exist, then AccountService.login
IssueSession(r) ==
    /\ req[r].pc = "ensure"
    /\ LET q == req[r]
           a == q.ident
           login == LoggedIn(sessions, a)
       IN  \E allow_create_workspace \in BOOLEAN :
             IF ~OwnerTenantMissing(joins, a)
             THEN /\ sessions' = login
                  /\ req' = [req EXCEPT ![r] = Reply(q, "logged_in", "redirect_console")]
                  /\ UNCHANGED <<accounts, tenants, joins, nextId>>
             ELSE IF ~allow_create_workspace
             THEN /\ req' = [req EXCEPT ![r] =
                               Reply(q, "workspace_not_allowed", "redirect_signin")]
                  /\ UNCHANGED <<accounts, tenants, joins, nextId, sessions>>
             ELSE /\ tenants' = tenants \cup {PersonalTenant(nextId)}
                  /\ joins' = CreateTenantMember(joins, nextId, a, "owner")
                  /\ accounts' = [accounts EXCEPT ![a].current = nextId]
                  /\ nextId' = nextId + 1
                  /\ sessions' = login
                  /\ req' = [req EXCEPT ![r] = Reply(q, "logged_in", "redirect_console")]
    /\ UNCHANGED <<mappings, clock>>
    /\ UNCHANGED apiVars

(***************************************************************************)
(* WorkspaceService.get_tenant_hierarchy of services/workspace_service.py. *)
(***************************************************************************)
NoHierarchy == [id |-> NoTenant]

\* get_children(tenant_id): the tenants whose parent_id is tenant_id, each with
\* its own children
RECURSIVE GetChildren(_, _)
GetChildren(ts, tenant_id) ==
    {[id |-> child.id, name |-> child.name, children |-> GetChildren(ts, child.id)] :
        child \in {t \in ts : t.parent = tenant_id}}

\* get_tenant_hierarchy(tenant_id)
GetTenantHierarchy(ts, tenant_id) ==
    IF ~\E t \in ts : t.id = tenant_id THEN NoHierarchy
    ELSE LET tenant == CHOOSE t \in ts : t.id = tenant_id
         IN  [id |-> tenant.id, name |-> tenant.name,
              children |-> GetChildren(ts, tenant.id)]

(***************************************************************************)
(* BaseApiKeyListResource.post and BaseApiKeyResource.delete of            *)
(* controllers/service_api/app/app.py, each request handled to completion. *)
(***************************************************************************)
max_keys == 10

\* the resource the requests are for, and another resource that has a token
ResourceIds == {1}
OtherResourceId == 2

\* resource_type of AppApiKeyListResource and AppApiKeyResource
resource_type == "app"

NoResponse == [op |-> "none", resource_id |-> 0, status |-> 0]

Response(op, resource_id, status) ==
    [op |-> op, resource_id |-> resource_id, status |-> status]

ApiToken(id, resource_id) == [id |-> id, type |-> resource_type, app_id |-> resource_id]

\* the query of lines 216-220 and 256-263: the tokens of the resource type for
\* one resource
ResourceTokens(toks, resource_id) ==
    {t \in toks : t.type = resource_type /\ t.app_id = resource_id}

\* faulty variant: the limit is tested with >
MaxKeysExceededStrict(current_key_count) == current_key_count > max_keys

\* line 222: current_key_count >= self.max_keys
MaxKeysExceeded(current_key_count) == current_key_count >= max_keys

\* lines 208-237: 404 for an unknown resource, 403 for a user who is not an
\* editor, 400 at the limit, else the token is added and committed
Post ==
    \E resource_id \in ResourceIds, found, is_editor \in BOOLEAN :
        LET current_key_count == Cardinality(ResourceTokens(api_tokens, resource_id))
        IN  IF ~found
            THEN /\ api_response' = Response("post", resource_id, 404)
                 /\ UNCHANGED <<api_tokens, next_key_id>>
            ELSE IF ~is_editor
            THEN /\ api_response' = Response("post", resource_id, 403)
                 /\ UNCHANGED <<api_tokens, next_key_id>>
            ELSE IF MaxKeysExceeded(current_key_count)
            THEN /\ api_response' = Response("post", resource_id, 400)
                 /\ UNCHANGED <<api_tokens, next_key_id>>
            ELSE /\ next_key_id <= MaxKeyIds
                 /\ api_tokens' = api_tokens \cup {ApiToken(next_key_id, resource_id)}
                 /\ next_key_id' = next_key_id + 1
                 /\ api_response' = Response("post", resource_id, 201)

\* lines 246-272: 404 for an unknown resource, 403 for a user who is neither
\* admin nor owner, 404 for a key that is not one of the resource, else the
\* token is deleted and the deletion committed
Delete ==
    \E resource_id \in ResourceIds, api_key_id \in 1..MaxKeyIds,
       found, is_admin_or_owner \in BOOLEAN :
        LET key == {t \in ResourceTokens(api_tokens, resource_id) : t.id = api_key_id}
        IN  IF ~found
            THEN /\ api_response' = Response("delete", resource_id, 404)
                 /\ UNCHANGED <<api_tokens, next_key_id>>
            ELSE IF ~is_admin_or_owner
            THEN /\ api_response' = Response("delete", resource_id, 403)
                 /\ UNCHANGED <<api_tokens, next_key_id>>
            ELSE IF key = {}
            THEN /\ api_response' = Response("delete", resource_id, 404)
                 /\ UNCHANGED <<api_tokens, next_key_id>>
            ELSE /\ api_tokens' = {t \in api_tokens : t.id # api_key_id}
                 /\ api_response' = Response("delete", resource_id, 204)
                 /\ UNCHANGED next_key_id

(***************************************************************************)
(* Direct calls of _sync_user_organizations, one after the other.          *)
(***************************************************************************)
CallSync(r) ==
    /\ clock < MaxCalls
    /\ req[r].pc \in {"idle", "sync_ret", "sync_exc"}
    /\ \E a \in AccountIds, orgs \in OrgLists :
         /\ accounts[a].exists
         /\ req' = [req EXCEPT ![r] =
                      [Idle EXCEPT !.pc = "sync_begin", !.ident = a, !.orgs = orgs,
                                   !.pre = Snapshot(a),
                                   !.rep = /\ req[r].pc = "sync_ret"
                                           /\ req[r].ident = a
                                           /\ req[r].orgs = orgs]]
    /\ clock' = clock + 1
    /\ UNCHANGED <<accounts, tenants, mappings, joins, sessions, nextId>>
    /\ UNCHANGED apiVars

(***************************************************************************)
(* Initial states and specifications.                                      *)
(***************************************************************************)
AccountRow(exists, status) ==
    [exists |-> exists, status |-> status, initialized_at |-> 0,
     current |-> NoTenant, linked |-> FALSE]

Init ==
    /\ \E s \in {"ACTIVE", "BANNED"} :
         accounts = [a \in AccountIds |->
                       IF a = 1 THEN AccountRow(TRUE, "PENDING")
                       ELSE IF a = 2 THEN AccountRow(TRUE, s)
                       ELSE AccountRow(FALSE, "NONE")]
    /\ tenants = {}
    /\ mappings = {}
    /\ joins = << >>
    /\ sessions = {}
    /\ nextId = 1
    /\ clock = 0
    /\ req = [r \in Req |-> Idle]
    /\ api_tokens = {ApiToken(1, OtherResourceId)}
    /\ next_key_id = 2
    /\ api_response = NoResponse

SyncInit ==
    /\ Init
    /\ accounts[2].status = "ACTIVE"

Next ==
    \E r \in Req :
        \/ Receive(r)
        \/ GenerateAccount(r)
        \/ SyncBegin(r)
        \/ SyncOrg(r)
        \/ SyncAttach(r)
        \/ SyncEnd(r)
        \/ SyncFail(r)
        \/ Unhandled(r)
        \/ Gate(r)
        \/ IssueSession(r)

Spec == Init /\ [][Next]_vars

\* callbacks handled one after the other, each to completion
SeqNext ==
    \E r \in Req :
        /\ \A q \in Req \ {r} : req[q].pc \in {"idle", "done"}
        /\ \/ Receive(r)
           \/ GenerateAccount(r)
           \/ SyncBegin(r)
           \/ SyncOrg(r)
           \/ SyncAttach(r)
           \/ SyncEnd(r)
           \/ SyncFail(r)
           \/ Unhandled(r)
           \/ Gate(r)
           \/ IssueSession(r)

SeqSpec == Init /\ [][SeqNext]_vars

Callers == {1}

SyncNext ==
    \E r \in Callers :
        \/ CallSync(r)
        \/ SyncBegin(r)
        \/ SyncOrg(r)
        \/ SyncAttach(r)
        \/ SyncEnd(r)
        \/ SyncFail(r)

SyncSpec == SyncInit /\ [][SyncNext]_vars

\* API-key requests, one after the other
ApiNext ==
    /\ \/ Post
       \/ Delete
    /\ UNCHANGED <<accounts, tenants, mappings, joins, sessions, nextId, clock, req>>

ApiSpec == SyncInit /\ [][ApiNext]_vars

(***************************************************************************)
(* Properties.                                                             *)
(***************************************************************************)
SyncPcs == {"sync_begin", "sync_org", "sync_attach", "sync_end"}

Owner(a, tid) == \E i \in 1..Len(joins) : joins[i] = JoinRow(tid, a, "owner")

\* C1: from a state with no tenants, a completed sync of ["Acme/dept-team"]
\* leaves exactly three tenants: Acme without parent, Acme/dept named dept under
\* Acme, Acme/dept-team named team under Acme/dept; the account owns all three.
C1_ThreeLevels ==
    \A r \in Req :
        (/\ req[r].pc = "sync_ret"
         /\ req[r].orgs = <<AcmeDeptTeam>>
         /\ req[r].pre.tenants = {})
        => /\ Cardinality(tenants) = 3
           /\ \E t1, t2, t3 \in tenants :
                /\ t1.key = Acme /\ t1.parent = NoTenant
                /\ t2.key = AcmeDept /\ t2.name = Dept /\ t2.parent = t1.id
                /\ t3.key = AcmeDeptTeam /\ t3.name = Team /\ t3.parent = t2.id
                /\ \A t \in {t1, t2, t3} : Owner(req[r].ident, t.id)

C1_Witness ==
    \E r \in Req :
        /\ req[r].pc = "sync_ret"
        /\ req[r].orgs = <<AcmeDeptTeam>>
        /\ req[r].pre.tenants = {}
        /\ Cardinality(tenants) = 3

\* C2: a second sync run with the same account and list directly after the
\* first one returned adds no tenant, mapping or membership at any of its
\* steps, and keeps a current tenant that was set.
C2_Idempotent ==
    \A r \in Req :
        req[r].rep
        => /\ tenants = req[r].pre.tenants
           /\ mappings = req[r].pre.mappings
           /\ joins = req[r].pre.joins
           /\ req[r].pre.current # NoTenant
                => accounts[req[r].ident].current = req[r].pre.current

C2_Witness ==
    \E r \in Req :
        /\ req[r].rep
        /\ req[r].pc = "sync_ret"
        /\ req[r].orgs = <<AcmeDeptTeam>>
        /\ Cardinality(tenants) = 3
        /\ Len(joins) = 3
        /\ accounts[req[r].ident].current # NoTenant

\* C3: no step of the sync run for an account whose status is BANNED changes
\* the tenants, the mappings, the memberships or the account's current tenant.
C3_BannedSyncChangesNothing ==
    [][\A r \in Req :
         (/\ req'[r] # req[r]
          /\ req[r].pc \in SyncPcs
          /\ accounts[req[r].ident].status = "BANNED")
         => /\ tenants' = tenants
            /\ mappings' = mappings
            /\ joins' = joins
            /\ accounts'[req[r].ident].current = accounts[req[r].ident].current]_vars

\* C4: a request past the status gate, and every session issued, is for an
\* account that is not BANNED; a BANNED status is never changed.
C4_BannedNeverLoggedIn ==
    /\ [](\A r \in Req : req[r].pc = "ensure"
                           => accounts[req[r].ident].status # "BANNED")
    /\ [][/\ \A s \in sessions' \ sessions : accounts[s[1]].status # "BANNED"
          /\ \A a \in AccountIds : accounts[a].status = "BANNED"
                                     => accounts'[a].status = "BANNED"]_vars

C4_Witness ==
    /\ \E r \in Req : req[r].pc = "done" /\ req[r].res.reason = "banned"
    /\ sessions # {}

AttachedByTwoAccounts(id1, id2) ==
    \E i, j \in 1..Len(joins) :
        /\ joins[i].tenant = id1
        /\ joins[j].tenant = id2
        /\ joins[i].account # joins[j].account

\* C5: the committed rows never hold two tenants, nor two mappings, with one
\* organization key that two different accounts were attached to.
C5_NoDuplicateKeys ==
    /\ \A t1, t2 \in tenants :
         (t1.id # t2.id /\ t1.key = t2.key /\ t1.key # NoKey)
         => ~AttachedByTwoAccounts(t1.id, t2.id)
    /\ \A m1, m2 \in mappings :
         (m1 # m2 /\ m1.key = m2.key)
         => ~AttachedByTwoAccounts(m1.tenant, m2.tenant)

\* C6: an ACTIVE account keeps its status and its initialized_at in every step;
\* a PENDING account leaves PENDING only in the gate step of one of its logins,
\* which makes it ACTIVE and sets initialized_at to the time of that step, and
\* every login of a PENDING account that passes the gate does so.
C6_ActivatedOnce ==
    [][\A a \in AccountIds :
         LET passes == \E r \in Req : /\ req[r].ident = a
                                      /\ req[r].pc = "sync_ret"
                                      /\ req'[r].pc = "ensure"
             activated == /\ accounts'[a].status = "ACTIVE"
                          /\ accounts'[a].initialized_at = clock
         IN  /\ accounts[a].status = "ACTIVE"
                  => /\ accounts'[a].status = "ACTIVE"
                     /\ accounts'[a].initialized_at = accounts[a].initialized_at
             /\ (accounts[a].status = "PENDING" /\ passes) => activated
             /\ (accounts[a].status = "PENDING" /\ accounts'[a].status # "PENDING")
                  => (passes /\ activated)]_vars

C6_Witness ==
    \E r \in Req :
        /\ req[r].pc = "ensure"
        /\ req[r].ident = 1
        /\ accounts[1].status = "ACTIVE"
        /\ accounts[1].initialized_at # 0
        /\ accounts[1].initialized_at < clock

\* C7: a callback with a valid invite token is answered at once and never
\* enters _generate_account; when the invitation's email differs the answer is
\* the invite-mismatch redirect; the step creates no account, tenant, mapping,
\* membership or session.
C7_InviteShortCircuit ==
    /\ [](\A r \in Req :
            req[r].invite \in {"valid_no_invitation", "valid_match", "valid_mismatch"}
            => /\ req[r].pc = "done"
               /\ req[r].invite = "valid_mismatch"
                    => req[r].res = [reason |-> "invite_mismatch",
                                     kind |-> "redirect_signin"])
    /\ [][\A r \in Req :
            (/\ req'[r] # req[r]
             /\ req'[r].invite \in {"valid_no_invitation", "valid_match", "valid_mismatch"})
            => UNCHANGED <<accounts, tenants, mappings, joins, sessions>>]_vars

C7_Witness ==
    \E r \in Req :
        /\ req[r].pc = "done"
        /\ req[r].invite = "valid_mismatch"
        /\ req[r].res.reason = "invite_mismatch"

\* C8 as stated: every failure path named by the claim is answered with a
\* redirect to the sign-in page.
C8_EveryFailureRedirects ==
    \A r \in Req :
        (/\ req[r].pc = "done"
         /\ req[r].res.reason \in {"oauth_failed", "invite_mismatch",
                                   "workspace_not_allowed", "register_frozen",
                                   "register_disabled", "banned"})
        => req[r].res.kind = "redirect_signin"

\* C8 amended: invite mismatch, workspace not allowed, registration error and
\* banned account are answered with a redirect to the sign-in page; a failed
\* token or user-info exchange is answered with a JSON body and status 400.
C8_FailuresAfterExchangeRedirect ==
    \A r \in Req :
        req[r].pc = "done"
        => /\ req[r].res.reason \in {"invite_mismatch", "workspace_not_allowed",
                                     "register_frozen", "register_disabled", "banned"}
                => req[r].res.kind = "redirect_signin"
           /\ req[r].res.reason = "oauth_failed" => req[r].res.kind = "json_400"

C8_Witness ==
    \E r1, r2 \in Req :
        /\ req[r1].pc = "done" /\ req[r1].res.reason = "oauth_failed"
        /\ req[r2].pc = "done" /\ req[r2].res.reason = "banned"

\* C9: a request whose sync raised, for an account that is not BANNED, is not
\* answered at that point: it goes on to the status gate.
C9_SyncFailureDoesNotBlock ==
    [][\A r \in Req :
         (/\ req[r].pc = "sync_exc"
          /\ accounts[req[r].ident].status # "BANNED")
         => req'[r].pc # "done"]_vars

\* C10: when a sync call has raised, the committed tenants, mappings and
\* memberships are those of before the call.
C10_FailedSyncLeavesNothing ==
    \A r \in Req :
        req[r].pc = "sync_exc"
        => /\ tenants = req[r].pre.tenants
           /\ mappings = req[r].pre.mappings
           /\ joins = req[r].pre.joins

\* C11: in the committed rows, which are what another request reads, every
\* tenant that carries an organization key K has exactly one mapping of key K,
\* that mapping names the tenant's id, and every mapping names an existing
\* tenant of its key.
C11_TenantsAndMappingsPaired ==
    /\ \A t \in tenants :
         t.key # NoKey
         => /\ Cardinality({m \in mappings : m.key = t.key}) = 1
            /\ \E m \in mappings : m.key = t.key /\ m.tenant = t.id
    /\ \A m \in mappings :
         \E t \in tenants : t.id = m.tenant /\ t.key = m.key

C13_FlatCreatesOne ==
    \A r \in Req :
        (/\ req[r].pc = "sync_ret"
         /\ Len(req[r].orgs) = 1
         /\ req[r].orgs[1] # EmptyStr
         /\ IndexOf(req[r].orgs[1], Slash) = 0
         /\ ~\E t \in req[r].pre.tenants : t.key = req[r].orgs[1]
         /\ JoinTenantIds(req[r].pre.joins, req[r].ident) = << >>)
        => \E id \in 1..nextId :
             /\ id \notin {t.id : t \in req[r].pre.tenants}
             /\ tenants = req[r].pre.tenants
                            \cup {TenantRow(id, req[r].orgs[1], req[r].orgs[1], NoTenant)}
             /\ mappings = req[r].pre.mappings \cup {MappingRow(req[r].orgs[1], id)}
             /\ joins = Append(req[r].pre.joins, JoinRow(id, req[r].ident, "owner"))

\* "B" from account 2 after account 1 created other tenants
C13_Witness ==
    \E r \in Req :
        /\ req[r].pc = "sync_ret"
        /\ req[r].orgs = <<Beta>>
        /\ req[r].ident = 2
        /\ req[r].pre.tenants # {}
        /\ JoinTenantIds(req[r].pre.joins, 2) = << >>
        /\ \E t \in tenants \ req[r].pre.tenants : t.key = Beta /\ Owner(2, t.id)

IsMember(js, tid, a) == \E i \in 1..Len(js) : js[i].tenant = tid /\ js[i].account = a

ParentKey(key) ==
    LET root_org == SplitOnce(key, Slash)[1]
        org_path_parts == Split(SplitOnce(key, Slash)[2], Hyphen)
    IN  IF Len(org_path_parts) = 1 THEN root_org
        ELSE FullOrgPath(root_org, org_path_parts, Len(org_path_parts) - 1)

\* the ids listed in a hierarchy returned by get_tenant_hierarchy
RECURSIVE HierarchyIds(_)
HierarchyIds(h) ==
    IF h = NoHierarchy THEN {}
    ELSE {h.id} \cup UNION {HierarchyIds(c) : c \in h.children}

\* C15: with syncs run one after the other, the parent of every tenant that
\* has one is an existing tenant with a smaller id (created earlier); a tenant
\* keyed without '/' has no parent and the parent of the tenant keyed
\* root/s1-...-sk is the tenant keyed root/s1-...-s(k-1), the root for k = 1;
\* the hierarchies of the parentless tenants list every tenant.
C15_Forest ==
    /\ \A t \in tenants :
         /\ t.parent # NoTenant
              => \E p \in tenants : p.id = t.parent /\ p.id < t.id
         /\ t.key # NoKey
              => IF IndexOf(t.key, Slash) = 0 THEN t.parent = NoTenant
                 ELSE \E p \in tenants : p.id = t.parent /\ p.key = ParentKey(t.key)
    /\ UNION {HierarchyIds(GetTenantHierarchy(tenants, root.id)) :
                root \in {t \in tenants : t.parent = NoTenant}}
         = {t.id : t \in tenants}

\* the three levels of "Acme/dept-team" and a second root
C15_Witness ==
    /\ \E t \in tenants : t.key = AcmeDeptTeam
    /\ \E t \in tenants : t.key = Beta
    /\ \E root \in tenants :
         /\ root.key = Acme
         /\ Cardinality(HierarchyIds(GetTenantHierarchy(tenants, root.id))) = 3

\* C16: when a call with a non-empty list has returned, an account that had a
\* current tenant at the call still has that one, and an account that had none
\* and was attached by the call has as current tenant the first level the call
\* attached it to.
C16_CurrentTenantIsFirstAttached ==
    \A r \in Req :
        (req[r].pc = "sync_ret" /\ req[r].orgs # << >>)
        => LET a == req[r].ident
               pre == req[r].pre
           IN  /\ pre.current # NoTenant => accounts[a].current = pre.current
               /\ (pre.current = NoTenant /\ Len(joins) > Len(pre.joins))
                    => accounts[a].current = joins[Len(pre.joins) + 1].tenant

\* C17: when a call for a string whose part after '/' is empty (such as
\* "Acme/") has returned, the account owns the tenant keyed by the root, no
\* tenant is keyed by the string itself and no tenant has an empty name.
C17_EmptyChildPartIsFlat ==
    \A r \in Req :
        req[r].pc = "sync_ret"
        => \A i \in 1..Len(req[r].orgs) :
             LET org == req[r].orgs[i]
             IN  (IndexOf(org, Slash) # 0 /\ SplitOnce(org, Slash)[2] = EmptyStr)
                 => /\ \E t \in tenants :
                         t.key = SplitOnce(org, Slash)[1] /\ Owner(req[r].ident, t.id)
                    /\ ~\E t \in tenants : t.key = org
                    /\ ~\E t \in tenants : t.name = EmptyStr

RegisterErrors == {"register_frozen", "register_disabled"}

\* the step of _generate_account for an identity that matches no account, with
\* registration disabled, answers with an AccountRegisterError description and
\* creates no account, link, tenant, mapping, membership or session
RegistrationDisabledCreatesNothing ==
    \A r \in Req :
        (/\ req[r].pc = "generate"
         /\ ~accounts[req[r].ident].exists
         /\ req'[r] # req[r]
         /\ ~req'[r].env.is_allow_register)
        => /\ req'[r].pc = "done"
           /\ req'[r].res.reason \in RegisterErrors
           /\ req'[r].res.kind = "redirect_signin"
           /\ UNCHANGED <<accounts, tenants, mappings, joins, sessions>>

\* C18 as stated: with no matching account and registration disabled the call
\* fails with an AccountRegisterError and creates nothing, and the error
\* carries the freeze-list message exactly when the email is on the freeze
\* list.
C18_FreezeMessageIffOnFreezeList ==
    /\ [](\A r \in Req :
            (req[r].pc = "done" /\ req[r].res.reason \in RegisterErrors)
            => (req[r].res.reason = "register_frozen" <=> req[r].env.is_email_in_freeze))
    /\ [][RegistrationDisabledCreatesNothing]_vars

\* C18 amended: with no matching account and registration disabled the call
\* fails with an AccountRegisterError and creates nothing, and the error
\* carries the freeze-list message exactly when billing is enabled and the
\* email is on the freeze list, the generic message otherwise.
C18_FreezeMessageIffBilledAndOnFreezeList ==
    /\ [](\A r \in Req :
            (req[r].pc = "done" /\ req[r].res.reason \in RegisterErrors)
            => (req[r].res.reason = "register_frozen"
                  <=> (req[r].env.BILLING_ENABLED /\ req[r].env.is_email_in_freeze)))
    /\ [][RegistrationDisabledCreatesNothing]_vars

\* one login answered with the freeze-list message, one with the generic
\* message although the email is on the freeze list
C18_Witness ==
    \E r1, r2 \in Req :
        /\ req[r1].pc = "done" /\ req[r1].res.reason = "register_frozen"
        /\ req[r2].pc = "done" /\ req[r2].res.reason = "register_disabled"
        /\ req[r2].env.is_email_in_freeze
        /\ ~accounts[3].exists

\* the step created one personal tenant, made account a its owner and its
\* current tenant, and nothing else
PersonalTenantCreated(a) ==
    \E t \in tenants' \ tenants :
        /\ tenants' = tenants \cup {t}
        /\ t.key = NoKey /\ t.parent = NoTenant
        /\ joins' = Append(joins, JoinRow(t.id, a, "owner"))
        /\ accounts'[a].current = t.id
        /\ mappings' = mappings

\* C19: for an existing account without memberships, _generate_account creates
\* a personal tenant owned by the account and current for it when workspace
\* creation is allowed, and is answered with the workspace-not-allowed redirect
\* when it is not; a login answered so, at that point or after the status
\* gate, gets no session and leaves the tenants, mappings and memberships as
\* they were when the callback arrived; a login of an account without
\* memberships that passes the gate ends logged in with a personal tenant or
\* with that answer.
C19_NoWorkspaceCreatedOrRejected ==
    [][\A r \in Req :
         LET a == req[r].ident
             rejected == /\ req'[r].pc = "done"
                         /\ req'[r].res = [reason |-> "workspace_not_allowed",
                                           kind |-> "redirect_signin"]
         IN  /\ (/\ req[r].pc = "generate"
                 /\ req'[r] # req[r]
                 /\ accounts[a].exists
                 /\ JoinTenantIds(joins, a) = << >>)
                => IF req'[r].env.is_allow_create_workspace
                   THEN req'[r].pc = "sync_begin" /\ PersonalTenantCreated(a)
                   ELSE rejected
             /\ (/\ req[r].pc = "ensure"
                 /\ req'[r] # req[r]
                 /\ JoinTenantIds(joins, a) = << >>)
                => \/ rejected
                   \/ /\ req'[r].res.reason = "logged_in"
                      /\ PersonalTenantCreated(a)
             /\ (req[r].pc # "done" /\ rejected)
                => /\ sessions' = sessions
                   /\ tenants' = req[r].pre.tenants
                   /\ mappings' = req[r].pre.mappings
                   /\ joins' = req[r].pre.joins]_vars

\* one login that got its personal tenant, one that was refused
C19_Witness ==
    \E r1, r2 \in Req :
        /\ req[r1].pc = "done" /\ req[r1].res.reason = "logged_in"
        /\ req[r2].pc = "done" /\ req[r2].res.reason = "workspace_not_allowed"
        /\ \E t \in tenants, a \in AccountIds :
             t.key = NoKey /\ Owner(a, t.id) /\ accounts[a].current = t.id
        /\ \E a \in AccountIds : accounts[a].exists /\ JoinTenantIds(joins, a) = << >>

\* C20: no step of a login removes or changes a tenant, a mapping or a
\* membership: the committed tenants and mappings only grow, a tenant id keeps
\* its key, name and parent, and every membership row stays where it is.
C20_SyncOnlyAdds ==
    [][/\ tenants \subseteq tenants'
       /\ \A t \in tenants, u \in tenants' : u.id = t.id => u = t
       /\ mappings \subseteq mappings'
       /\ Len(joins) <= Len(joins')
       /\ \A i \in 1..Len(joins) : joins'[i] = joins[i]]_vars

\* the account still owns Acme/dept, obtained in an earlier login, after the
\* sync of a login whose list is ["Acme"] only
C20_Witness ==
    \E r \in Req :
        /\ req[r].pc = "sync_ret"
        /\ req[r].orgs = <<Acme>>
        /\ \E t \in tenants : t.key = AcmeDept /\ Owner(req[r].ident, t.id)

KeyCount(resource_id) ==
    Cardinality({t \in api_tokens : t.type = "app" /\ t.app_id = resource_id})

\* C21: with create and delete requests handled one after the other, no
\* resource ever has more than max_keys tokens of its type, and a create
\* request for a resource that already has max_keys tokens adds no token of
\* that resource and is not answered with 201 (the refusal is the 400 of
\* line 223).
C21_AtMostMaxKeys ==
    /\ [](\A resource_id \in ResourceIds : KeyCount(resource_id) <= max_keys)
    /\ [](\A resource_id \in ResourceIds :
            api_response = Response("post", resource_id, 400)
            => KeyCount(resource_id) = max_keys)
    /\ [][\A resource_id \in ResourceIds :
            KeyCount(resource_id) >= max_keys
            => /\ ResourceTokens(api_tokens', resource_id)
                    \subseteq ResourceTokens(api_tokens, resource_id)
               /\ (api_response' # api_response /\ api_response'.op = "post"
                      /\ api_response'.resource_id = resource_id)
                    => api_response'.status \in {400, 403, 404}]_vars

\* a create refused at the limit, after a delete had made room for the last id
C21_Witness ==
    /\ api_response = Response("post", 1, 400)
    /\ KeyCount(1) = max_keys
    /\ next_key_id = MaxKeyIds + 1
    /\ KeyCount(OtherResourceId) = 1

====
